---- MODULE Spec2Model ----
(***************************************************************************)
(* A model of LibFS.c: a UNIX-style file system kept in a disk image of    *)
(* fixed-size sectors.                                                     *)
(*                                                                         *)
(* The disk is modelled at byte level: a sector is the function from the   *)
(* offsets of its nonzero bytes to their values, and the disk is the       *)
(* function from the sectors that hold a nonzero byte to their contents.   *)
(* Every structure of the file system (bitmaps, inodes, directory entries, *)
(* file data) is read from and written to those bytes the way the C code   *)
(* does it, so a sector that the code uses for two purposes is seen        *)
(* through both.  Integers are 32-bit two's complement, stored least       *)
(* significant byte first (the layout of the builds the library targets).  *)
(***************************************************************************)
EXTENDS Integers, Sequences, FiniteSets, TLC

VARIABLES
  disk,        \* the sectors of the simulated disk
  backstore,   \* the image in the backstore file
  open_files,  \* the open-file table
  osErrno,     \* the last error set ("" before any)
  call,        \* the API call made last, with its arguments
  ret,         \* the value it returned
  out,         \* the bytes File_Read stored in the caller's buffer
  halted,      \* the process has ended inside a call (a failed assert, a bad pointer)
  made,        \* history: the paths created with success and not unlinked since
  rt,          \* history: progress of an open / write / seek / read sequence
  left         \* the number of calls the caller still makes

vars == <<disk, backstore, open_files, osErrno, call, ret, out, halted, made, rt, left>>

(***************************************************************************)
(* Compile-time parameters.                                                *)
(***************************************************************************)
SECTOR_SIZE == 512
TOTAL_SECTORS == 10000
MAX_FILES == 1000
MAX_SECTORS_PER_FILE == 30
MAX_PATH == 256
MAX_NAME == 16
MAX_OPEN_FILES == 3

SUPERBLOCK_START_SECTOR == 0
INODE_BITMAP_START_SECTOR == 1

\* the bytes of OS_MAGIC (0xdeadbeef), least significant first
OS_MAGIC == <<239, 190, 173, 222>>

\* sizeof(int), sizeof(inode_t), sizeof(dirent_t)
SizeofInt == 4
SizeofInode == 2 * SizeofInt + MAX_SECTORS_PER_FILE * SizeofInt
SizeofDirent == MAX_NAME + SizeofInt

INODE_BITMAP_SIZE == (MAX_FILES + 7) \div 8
INODE_BITMAP_SECTORS == (INODE_BITMAP_SIZE + SECTOR_SIZE - 1) \div SECTOR_SIZE
SECTOR_BITMAP_START_SECTOR == INODE_BITMAP_START_SECTOR + INODE_BITMAP_SECTORS
SECTOR_BITMAP_SIZE == (TOTAL_SECTORS + 7) \div 8
SECTOR_BITMAP_SECTORS == (SECTOR_BITMAP_SIZE + SECTOR_SIZE - 1) \div SECTOR_SIZE
INODE_TABLE_START_SECTOR == SECTOR_BITMAP_START_SECTOR + SECTOR_BITMAP_SECTORS
INODES_PER_SECTOR == SECTOR_SIZE \div SizeofInode
INODE_TABLE_SECTORS == (MAX_FILES + INODES_PER_SECTOR - 1) \div INODES_PER_SECTOR
DATABLOCK_START_SECTOR == INODE_TABLE_START_SECTOR + INODE_TABLE_SECTORS
DIRENTS_PER_SECTOR == SECTOR_SIZE \div SizeofDirent

(***************************************************************************)
(* C arithmetic.                                                           *)
(***************************************************************************)
\* a / b of C (truncation toward zero), b > 0
CDiv(a, b) == IF a >= 0 THEN a \div b ELSE -((-a) \div b)

Pow2(k) == 2 ^ k

Min(a, b) == IF a <= b THEN a ELSE b

(***************************************************************************)
(* Byte buffers of one sector.                                             *)
(***************************************************************************)
EmptyBuf == [o \in {} |-> 0]

ByteAt(buf, o) == IF o \in DOMAIN buf THEN buf[o] ELSE 0

\* buf with the bytes of f (offset -> value) stored over it
PutBytes(buf, f) ==
  LET D == (DOMAIN buf \ DOMAIN f) \cup {o \in DOMAIN f : f[o] # 0}
  IN  [o \in D |-> IF o \in DOMAIN f THEN f[o] ELSE buf[o]]

\* memset(buf + o, v, n)
MemSet(buf, o, v, n) == PutBytes(buf, [i \in o..(o + n - 1) |-> v])

\* *(int*)(buf + o)
IntAt(buf, o) ==
  LET b3 == ByteAt(buf, o + 3)
  IN  ByteAt(buf, o) + 256 * ByteAt(buf, o + 1) + 65536 * ByteAt(buf, o + 2)
      + 16777216 * (IF b3 >= 128 THEN b3 - 256 ELSE b3)

\* *(int*)(buf + o) = v
PutInt(buf, o, v) ==
  PutBytes(buf, [i \in o..(o + 3) |-> (v \div (256 ^ (i - o))) % 256])

\* bit k (0 = most significant) of a byte
BitOf(byte, k) == (byte \div Pow2(7 - k)) % 2

(***************************************************************************)
(* The block device (LibDisk): Disk_Read and Disk_Write transfer one       *)
(* sector and fail on a sector number outside the disk.                    *)
(***************************************************************************)
ValidSector(s) == 0 <= s /\ s < TOTAL_SECTORS

\* the bytes Disk_Read(s, buf) leaves in buf (buf keeps `old` on failure)
Disk_Read(d, s, old) ==
  IF ~ValidSector(s) THEN old
  ELSE IF s \in DOMAIN d THEN d[s] ELSE EmptyBuf

\* the disk after Disk_Write(s, buf)
Disk_Write(d, s, buf) ==
  IF ~ValidSector(s) THEN d
  ELSE LET D == IF buf = EmptyBuf THEN DOMAIN d \ {s} ELSE DOMAIN d \cup {s}
       IN  [x \in D |-> IF x = s THEN buf ELSE d[x]]


(***************************************************************************)
(* The bitmap allocator.  A value that a function computes once and then   *)
(* uses several times is handed to a local operator as its argument.       *)
(***************************************************************************)
\* one round of bitmap_init's loop: the sector written and the nbits left
InitRound(nbits) ==
  IF nbits > 512 * 8
  THEN [buf |-> MemSet(EmptyBuf, 0, 255, 512), nbits |-> nbits - 512]
  ELSE IF nbits < 512 * 8 /\ nbits > 0
  THEN LET Last(temp, mod, full) ==
             \* bitmap[temp] = (1 << (7-beginBit)) for beginBit = 0 .. mod-1
             [buf |-> IF mod > 0
                      THEN PutBytes(full, [i \in {temp} |-> Pow2(7 - (mod - 1))])
                      ELSE full,
              nbits |-> 0]
       IN  Last(nbits \div 8, nbits % 8, MemSet(EmptyBuf, 0, 255, nbits \div 8))
  ELSE [buf |-> EmptyBuf, nbits |-> nbits]

RECURSIVE InitFrom(_, _, _, _, _)
InitFrom(d, start, num, nbits, beginSector) ==
  IF beginSector >= num THEN d
  ELSE LET Round(r) == InitFrom(Disk_Write(d, start + beginSector, r.buf), start, num,
                                r.nbits, beginSector + 1)
       IN  Round(InitRound(nbits))

\* the disk after bitmap_init(start, num, nbits)
bitmap_init(d, start, num, nbits) == InitFrom(d, start, num, nbits, 0)

\* the first byte of a sector that is not 0xff, or 512 when there is none
FirstOpenByte(buf) ==
  IF \A b \in 0..511 : ByteAt(buf, b) = 255 THEN 512
  ELSE CHOOSE b \in 0..511 :
         ByteAt(buf, b) # 255 /\ \A c \in 0..(b - 1) : ByteAt(buf, c) = 255

\* the first zero bit of a byte that is not 0xff
FirstZeroBit(byte) ==
  CHOOSE k \in 0..7 : BitOf(byte, k) = 0 /\ \A j \in 0..(k - 1) : BitOf(byte, j) = 1

\* bitmap[b] = bitmap[b] | (1 << (7-k)), Disk_Write, return position
TakeBit(d, sector, bitmap, position, b, k) ==
  [pos  |-> position + 8 * b + k,
   disk |-> Disk_Write(d, sector,
                       PutBytes(bitmap, [i \in {b} |-> bitmap[b] + Pow2(7 - k)]))]

\* the while loop of bitmap_first_unused: every sector read is scanned to its end,
\* and nbits is compared with 0 only between two sectors
RECURSIVE FirstUnusedFrom(_, _, _, _, _)
FirstUnusedFrom(d, start, nbits, beginSector, position) ==
  IF nbits <= 0 THEN [pos |-> -1, disk |-> d]
  ELSE LET Scan(bitmap, b) ==
             IF b = 512
             THEN FirstUnusedFrom(d, start, nbits - 512 * 8, beginSector + 1,
                                  position + 512 * 8)
             ELSE IF b \in DOMAIN bitmap
             THEN TakeBit(d, start + beginSector, bitmap, position, b,
                          FirstZeroBit(bitmap[b]))
             ELSE [pos  |-> position + 8 * b,
                   disk |-> Disk_Write(d, start + beginSector,
                                       PutBytes(bitmap, [i \in {b} |-> 128]))]
           Sector(bitmap) == Scan(bitmap, FirstOpenByte(bitmap))
       IN  Sector(Disk_Read(d, start + beginSector, EmptyBuf))

\* bitmap_first_unused(start, num, nbits): the position returned and the disk left
bitmap_first_unused(d, start, num, nbits) == FirstUnusedFrom(d, start, nbits, 0, 0)

\* the disk after bitmap_reset(start, num, ibit), ibit >= 0: the sector is
\* ibit / (512*8), the byte ibit / 512 and the bit ibit % 8
bitmap_reset(d, start, num, ibit) ==
  LET Clear(Sector, beginByte, bit, bitmap) ==
        \* a byte past the 512 of the buffer is not part of the sector written back
        IF beginByte \notin DOMAIN bitmap THEN Disk_Write(d, start + Sector, bitmap)
        ELSE Disk_Write(d, start + Sector,
                        PutBytes(bitmap,
                                 [i \in {beginByte} |->
                                    bitmap[beginByte]
                                    - BitOf(bitmap[beginByte], bit) * Pow2(7 - bit)]))
  IN  Clear(ibit \div (512 * 8), ibit \div 512, ibit % 8,
            Disk_Read(d, start + ibit \div (512 * 8), EmptyBuf))

\* the positions, counted from base, of the bits that are 1 in a bitmap sector
OnesOf(buf, base) ==
  UNION {{base + 8 * b + k : k \in {j \in 0..7 : BitOf(buf[b], j) = 1}} : b \in DOMAIN buf}

\* logical bit i of the bitmap that starts at sector start
BitmapBit(d, start, i) ==
  BitOf(ByteAt(Disk_Read(d, start + i \div (SECTOR_SIZE * 8), EmptyBuf),
               (i % (SECTOR_SIZE * 8)) \div 8), i % 8)

InodeBit(d, i) == BitmapBit(d, INODE_BITMAP_START_SECTOR, i)
SectorBit(d, s) == BitmapBit(d, SECTOR_BITMAP_START_SECTOR, s)

(***************************************************************************)
(* Inodes and directory entries inside a sector buffer.                    *)
(***************************************************************************)
InodeSector(i) == INODE_TABLE_START_SECTOR + CDiv(i, INODES_PER_SECTOR)
\* offset = inode - inode_start_entry, times sizeof(inode_t)
InodeOff(i) == (i - CDiv(i, INODES_PER_SECTOR) * INODES_PER_SECTOR) * SizeofInode

I_size(buf, off) == IntAt(buf, off)
I_type(buf, off) == IntAt(buf, off + SizeofInt)
I_data(buf, off, k) == IntAt(buf, off + 2 * SizeofInt + k * SizeofInt)

\* the inode record at offset off of an inode table sector
InodeAt(buf, off) ==
  [size |-> I_size(buf, off), type |-> I_type(buf, off),
   data |-> [k \in 0..(MAX_SECTORS_PER_FILE - 1) |-> I_data(buf, off, k)]]

\* the inode record of inode i as the disk holds it
InodeOf(d, i) == InodeAt(Disk_Read(d, InodeSector(i), EmptyBuf), InodeOff(i))

\* strcmp(buf + o, name) == 0 for a name without NUL bytes
NameAt(buf, o, name) ==
  /\ \A j \in 1..Len(name) : ByteAt(buf, o + j - 1) = name[j]
  /\ ByteAt(buf, o + Len(name)) = 0

\* strncpy(buf + o, name, MAX_NAME)
PutName(buf, o, name) ==
  PutBytes(buf, [i \in o..(o + MAX_NAME - 1) |->
                   IF i - o + 1 <= Len(name) THEN name[i - o + 1] ELSE 0])

\* the least element of a nonempty set of integers
Least(S) == CHOOSE i \in S : \A j \in S : i <= j

(***************************************************************************)
(* Paths are sequences of character codes; 47 is '/'.                      *)
(***************************************************************************)
\* isdigit(c) || isalpha(c) || c == '.' || c == '-' || c == '_'
LegalChar(c) ==
  \/ (48 <= c /\ c <= 57)
  \/ (65 <= c /\ c <= 90)
  \/ (97 <= c /\ c <= 122)
  \/ c \in {46, 45, 95}

\* an illegal_filename that looks at the length only
illegal_filename_AnyByte(name) == Len(name) > MAX_NAME - 1

\* illegal_filename(name): TRUE for 1
illegal_filename(name) ==
  \/ Len(name) > MAX_NAME - 1
  \/ \E i \in 1..Len(name) : ~LegalChar(name[i])

\* the tokens strsep(&lpath, "/") yields on s, the empty ones included
RECURSIVE StrSep(_, _)
StrSep(s, cur) ==
  IF s = <<>> THEN <<cur>>
  ELSE IF Head(s) = 47 THEN <<cur>> \o StrSep(Tail(s), <<>>)
  ELSE StrSep(Tail(s), Append(cur, Head(s)))

\* pathstore: path + 1 cut to MAX_PATH - 1 characters
PathStore(path) == SubSeq(path, 2, Min(Len(path), MAX_PATH))

\* the entries of a directory sector, among 0..last, named fname
Matches(buf, fname, last) == {i \in 0..last : NameAt(buf, i * SizeofDirent, fname)}

\* the loop of find_child_inode over the sectors of the parent
RECURSIVE FindFrom(_, _, _, _, _, _)
FindFrom(d, pbuf, poff, fname, nentries, idx) ==
  IF nentries <= 0 THEN -1
  ELSE LET Found(child_inode) ==
             IF ValidSector(InodeSector(child_inode)) THEN child_inode ELSE -2
           \* the for loop leaves at i > nentries, not at i >= nentries
           Entries(buf, hits) ==
             IF hits # {}
             THEN Found(IntAt(buf, Least(hits) * SizeofDirent + MAX_NAME))
             ELSE FindFrom(d, pbuf, poff, fname, nentries - DIRENTS_PER_SECTOR, idx + 1)
           Group(buf) ==
             Entries(buf, Matches(buf, fname, Min(DIRENTS_PER_SECTOR - 1, nentries)))
           Sector(s) ==
             IF ~ValidSector(s) THEN -2 ELSE Group(Disk_Read(d, s, EmptyBuf))
       IN  Sector(I_data(pbuf, poff, idx))

\* find_child_inode(parent_inode, fname, ...): the child inode, -1 or -2
find_child_inode(d, parent_inode, fname) ==
  LET Parent(pbuf, poff) ==
        IF I_type(pbuf, poff) # 1 THEN -2
        ELSE FindFrom(d, pbuf, poff, fname, I_size(pbuf, poff), 0)
  IN  Parent(Disk_Read(d, InodeSector(parent_inode), EmptyBuf), InodeOff(parent_inode))

\* the while loop of follow_path over the tokens from index k on
RECURSIVE Walk(_, _, _, _, _, _)
Walk(d, tokens, k, parent_inode, child_inode, last_fname) ==
  IF k > Len(tokens)
  THEN [fail |-> FALSE, parent |-> parent_inode, child |-> child_inode,
        fname |-> last_fname]
  ELSE IF tokens[k] = <<>>
  THEN Walk(d, tokens, k + 1, parent_inode, child_inode, last_fname)
  ELSE IF illegal_filename(tokens[k]) \/ child_inode < 0
  THEN [fail |-> TRUE, parent |-> parent_inode, child |-> child_inode,
        fname |-> last_fname]
  ELSE Walk(d, tokens, k + 1, child_inode,
            find_child_inode(d, child_inode, tokens[k]), tokens[k])

\* follow_path(path, &last_inode, last_fname): ret is the value returned; set tells
\* whether *last_inode was assigned (it is not when the function returns -1)
follow_path(d, path) ==
  IF path = <<>> \/ path[1] # 47
  THEN [ret |-> -1, set |-> FALSE, last_inode |-> 0, last_fname |-> <<>>]
  ELSE LET End(w) ==
             IF w.fail \/ w.child < -1
             THEN [ret |-> -1, set |-> FALSE, last_inode |-> 0, last_fname |-> w.fname]
             ELSE [ret |-> IF w.parent = -1 /\ w.child = 0 THEN 0 ELSE w.parent,
                   set |-> TRUE, last_inode |-> w.child, last_fname |-> w.fname]
       IN  End(Walk(d, StrSep(PathStore(path), <<>>), 1, -1, 0, <<>>))

(***************************************************************************)
(* Creating files and directories.  Internal functions that write the disk *)
(* give a record of the value returned (ret) and the disk left behind.     *)
(***************************************************************************)
Ret(r, d) == [ret |-> r, disk |-> d]

\* the end of add_inode: the dirent stored in slot `slot` of sector sec, the sector
\* written, parent->size++, the parent's inode sector written
AddEntry(d, pbuf, poff, psector, sec, dirent_buffer, slot, child_inode, file) ==
  IF ~ValidSector(sec) THEN Ret(-1, d)
  ELSE Ret(0, Disk_Write(Disk_Write(d, sec,
                                    PutInt(PutName(dirent_buffer, slot * SizeofDirent, file),
                                           slot * SizeofDirent + MAX_NAME, child_inode)),
                         psector, PutInt(pbuf, poff, I_size(pbuf, poff) + 1)))

\* add_inode from "get the dirent sector" on: d holds the child's inode already
AddToParent(d, parent_inode, child_inode, file, pbuf, poff) ==
  IF I_type(pbuf, poff) # 1 THEN Ret(-2, d)
  ELSE LET NewSector(group, n) ==
             IF n.pos < 0 THEN Ret(-1, n.disk)
             ELSE AddEntry(n.disk,
                           PutInt(pbuf, poff + 2 * SizeofInt + group * SizeofInt, n.pos),
                           poff, InodeSector(parent_inode), n.pos, EmptyBuf, 0,
                           child_inode, file)
           OldSector(group, sec) ==
             AddEntry(d, pbuf, poff, InodeSector(parent_inode), sec,
                      Disk_Read(d, sec, EmptyBuf),
                      I_size(pbuf, poff) - group * DIRENTS_PER_SECTOR, child_inode, file)
           Group(group) ==
             IF group * DIRENTS_PER_SECTOR = I_size(pbuf, poff)
             THEN NewSector(group,
                            bitmap_first_unused(d, SECTOR_BITMAP_START_SECTOR,
                                                SECTOR_BITMAP_SECTORS, SECTOR_BITMAP_SIZE))
             ELSE OldSector(group, I_data(pbuf, poff, group))
       IN  Group(CDiv(I_size(pbuf, poff), DIRENTS_PER_SECTOR))

\* add_inode(type, parent_inode, file)
add_inode(d, type, parent_inode, file) ==
  LET Parent(d1, child_inode) ==
        AddToParent(d1, parent_inode, child_inode, file,
                    Disk_Read(d1, InodeSector(parent_inode), EmptyBuf),
                    InodeOff(parent_inode))
      \* memset(child, 0, sizeof(inode_t)); child->type = type; Disk_Write
      Child(d0, child_inode, inode_buffer) ==
        Parent(Disk_Write(d0, InodeSector(child_inode),
                          PutInt(MemSet(inode_buffer, InodeOff(child_inode), 0, SizeofInode),
                                 InodeOff(child_inode) + SizeofInt, type)),
               child_inode)
      Alloc(a) ==
        IF a.pos < 0 \/ ~ValidSector(InodeSector(a.pos)) THEN Ret(-1, a.disk)
        ELSE Child(a.disk, a.pos, Disk_Read(a.disk, InodeSector(a.pos), EmptyBuf))
  IN  Alloc(bitmap_first_unused(d, INODE_BITMAP_START_SECTOR, INODE_BITMAP_SECTORS,
                                INODE_BITMAP_SIZE))

\* what an API call leaves: the value returned, the osErrno set ("" when the call
\* sets none) and the disk
Result(r, e, d) == [ret |-> r, errno |-> e, disk |-> d]

\* create_file_or_directory(type, pathname)
create_file_or_directory(d, type, pathname) ==
  LET Added(r) ==
        IF r.ret >= 0 THEN Result(0, "", r.disk) ELSE Result(-1, "E_CREATE", r.disk)
      Resolved(fp) ==
        IF fp.ret >= 0
        THEN IF fp.last_inode >= 0 THEN Result(-1, "E_CREATE", d)
             ELSE Added(add_inode(d, type, fp.ret, fp.last_fname))
        ELSE Result(-1, "E_CREATE", d)
  IN  Resolved(follow_path(d, pathname))

(***************************************************************************)
(* Removing files and directories.                                         *)
(***************************************************************************)
\* the loop of remove_inode over childnode->data[i .. MAX_SECTORS_PER_FILE-1]
RECURSIVE ResetData(_, _, _)
ResetData(d, data, i) ==
  IF i >= MAX_SECTORS_PER_FILE THEN d
  ELSE IF data[i] = 0 THEN ResetData(d, data, i + 1)
  ELSE ResetData(bitmap_reset(d, SECTOR_BITMAP_START_SECTOR, SECTOR_BITMAP_SECTORS, data[i]),
                 data, i + 1)

\* the entries of a directory sector whose inode field is child_inode
EntriesOf(buf, child_inode) ==
  {k \in 0..(DIRENTS_PER_SECTOR - 1) :
     IntAt(buf, k * SizeofDirent + MAX_NAME) = child_inode}

\* the loop of remove_inode over parent->data[j .. MAX_SECTORS_PER_FILE-1]
RECURSIVE RemoveEntry(_, _, _, _, _, _)
RemoveEntry(d, psector, pbuf, poff, child_inode, j) ==
  IF j >= MAX_SECTORS_PER_FILE THEN Ret(-1, d)
  ELSE LET Found(sec, dirent_buffer, k) ==
             \* memset(dirent, 0, sizeof(dirent_t)); Disk_Write; parent->size--; Disk_Write
             Ret(0, Disk_Write(Disk_Write(d, sec,
                                          MemSet(dirent_buffer, k * SizeofDirent, 0,
                                                 SizeofDirent)),
                               psector,
                               IF I_size(pbuf, poff) > 0
                               THEN PutInt(pbuf, poff, I_size(pbuf, poff) - 1)
                               ELSE pbuf))
           Entries(sec, dirent_buffer, hits) ==
             IF hits = {} THEN RemoveEntry(d, psector, pbuf, poff, child_inode, j + 1)
             ELSE Found(sec, dirent_buffer, Least(hits))
           Group(sec, dirent_buffer) ==
             Entries(sec, dirent_buffer, EntriesOf(dirent_buffer, child_inode))
           Sector(sec) ==
             IF sec = 0 THEN RemoveEntry(d, psector, pbuf, poff, child_inode, j + 1)
             ELSE IF ~ValidSector(sec) THEN Ret(-1, d)
             ELSE Group(sec, Disk_Read(d, sec, EmptyBuf))
       IN  Sector(I_data(pbuf, poff, j))

\* remove_inode(type, parent_inode, child_inode), where childnode is what the
\* pointer returned by getInodeHelper shows of the child's inode
remove_inode(d, type, parent_inode, child_inode, childnode) ==
  IF childnode.type # type THEN Ret(-3, d)
  ELSE IF childnode.size # 0 THEN Ret(-2, d)
  ELSE LET Parent(d2, pbuf, poff) ==
             IF I_type(pbuf, poff) # 1 THEN Ret(-2, d2)
             ELSE RemoveEntry(d2, InodeSector(parent_inode), pbuf, poff, child_inode, 0)
           Reset(d2) ==
             Parent(d2, Disk_Read(d2, InodeSector(parent_inode), EmptyBuf),
                    InodeOff(parent_inode))
       IN  Reset(bitmap_reset(ResetData(d, childnode.data, 0),
                              INODE_BITMAP_START_SECTOR, INODE_BITMAP_SECTORS, child_inode))

\* getInodeHelper returns a pointer into its own frame, which is dead when
\* remove_inode reads through it.  type and size are read before remove_inode
\* calls anything; data[] is read after calls that reuse the frame, so a word of
\* it may show what such a call left there.  StackWords are the values taken
\* for such a word.
StackWords == {0, 6}

\* the views remove_inode can have of an inode record
StaleViews(node) ==
  {node} \cup {[node EXCEPT !.data[0] = g] : g \in StackWords}

\* the outcomes of one call of remove_inode: a record with a ret and a disk, or
\* the end of the process on the access through the dead pointer
Crashed == [crash |-> TRUE]
RemoveOutcomes(d, type, parent_inode, child_inode) ==
  {Crashed} \cup
  {[crash |-> FALSE, r |-> remove_inode(d, type, parent_inode, child_inode, v)] :
     v \in StaleViews(InodeOf(d, child_inode))}

(***************************************************************************)
(* The open-file table.                                                    *)
(***************************************************************************)
Fds == 0..(MAX_OPEN_FILES - 1)

FreeEntry == [inode |-> 0, size |-> 0, pos |-> 0]

\* is_file_open(inode): TRUE for 1
is_file_open(of, inode) == \E i \in Fds : of[i].inode = inode

\* new_file_fd()
new_file_fd(of) ==
  IF \E i \in Fds : of[i].inode <= 0
  THEN Least({i \in Fds : of[i].inode <= 0})
  ELSE -1

(***************************************************************************)
(* What a call of the API leaves behind.                                   *)
(***************************************************************************)
Outcome(r, e, d, of, o, h) ==
  [ret |-> r, errno |-> e, disk |-> d, of |-> of, out |-> o, halted |-> h]

\* the values taken for an int that is read before it is assigned
UninitWords == {-1, 0, 1}

(***************************************************************************)
(* delete_helper, behind File_Unlink and Dir_Unlink.  It calls             *)
(* remove_inode up to three times, each call acting on the disk the one    *)
(* before it left.  The value is the set of the outcomes it can have.      *)
(***************************************************************************)
Unlinked(r, e, d, of) == Outcome(r, e, d, of, <<>>, FALSE)
Aborted(d, of) == Outcome(0, "", d, of, <<>>, TRUE)

RemoveCalls(d, of, type, parent_inode, child_inode) ==
  UNION {
    IF o1.crash THEN {Aborted(d, of)}
    ELSE IF o1.r.ret = 0 THEN {Unlinked(0, "", o1.r.disk, of)}
    ELSE UNION {
      IF o2.crash THEN {Aborted(o1.r.disk, of)}
      ELSE IF o2.r.ret = -2 THEN {Unlinked(-1, "E_DIR_NOT_EMPTY", o2.r.disk, of)}
      ELSE {IF o3.crash THEN Aborted(o2.r.disk, of)
            ELSE Unlinked(-1, "E_GENERAL", o3.r.disk, of) :
              o3 \in RemoveOutcomes(o2.r.disk, type, parent_inode, child_inode)} :
        o2 \in RemoveOutcomes(o1.r.disk, type, parent_inode, child_inode)} :
      o1 \in RemoveOutcomes(d, type, parent_inode, child_inode)}

delete_helper(d, of, type, pathname) ==
  LET Checked(parent_inode, child_inode) ==
        IF is_file_open(of, child_inode) THEN {Unlinked(-1, "E_FILE_IN_USE", d, of)}
        ELSE IF child_inode < 0
        THEN {Unlinked(-1, IF type # 0 THEN "E_NO_SUCH_FILE" ELSE "E_NO_SUCH_DIR", d, of)}
        ELSE IF parent_inode >= 0
        THEN RemoveCalls(d, of, type, parent_inode, child_inode)
        \* the function ends without a return statement
        ELSE {Unlinked(u, "", d, of) : u \in UninitWords}
      \* child_inode is not assigned when follow_path returns -1
      Resolved(fp) ==
        UNION {Checked(fp.ret, c) :
                 c \in IF fp.set THEN {fp.last_inode} ELSE UninitWords}
  IN  Resolved(follow_path(d, pathname))

(***************************************************************************)
(* File I/O.                                                               *)
(***************************************************************************)
\* File_Open(file): the set of the outcomes
File_Open_Results(d, of, file) ==
  LET Opened(fd, child_inode, node) ==
        IF node.type # 0 THEN Outcome(-1, "E_GENERAL", d, of, <<>>, FALSE)
        ELSE Outcome(fd, "", d,
                     [of EXCEPT ![fd] = [inode |-> child_inode, size |-> node.size,
                                         pos |-> 0]],
                     <<>>, FALSE)
      Child(fd, child_inode) ==
        IF child_inode >= 0
        THEN IF ~ValidSector(InodeSector(child_inode))
             THEN Outcome(-1, "E_GENERAL", d, of, <<>>, FALSE)
             ELSE Opened(fd, child_inode, InodeOf(d, child_inode))
        ELSE Outcome(-1, "E_NO_SUCH_FILE", d, of, <<>>, FALSE)
      \* child_inode is not assigned when follow_path returns -1
      Resolved(fd, fp) ==
        {Child(fd, c) : c \in IF fp.set THEN {fp.last_inode} ELSE UninitWords}
      Slot(fd) ==
        IF fd < 0 THEN {Outcome(-1, "E_TOO_MANY_OPEN_FILES", d, of, <<>>, FALSE)}
        ELSE Resolved(fd, follow_path(d, file))
  IN  Slot(new_file_fd(of))

\* the bytes of sector buffer temp from offset beginByte on, n of them at most
Bytes(temp, beginByte, n) ==
  [i \in 1..Min(n, SECTOR_SIZE - beginByte) |-> ByteAt(temp, beginByte + i - 1)]

\* the outer loop of File_Read: acc is data[0 .. count-1]
RECURSIVE ReadLoop(_, _, _, _, _, _, _, _)
ReadLoop(d, nbuf, noff, beginSector, beginByte, size, temp, acc) ==
  IF Len(acc) >= size THEN acc
  ELSE LET Copy(t) ==
             ReadLoop(d, nbuf, noff, beginSector + 1, 0, size, t,
                      acc \o Bytes(t, beginByte, size - Len(acc)))
           Sector(sec) == IF sec = 0 THEN acc ELSE Copy(Disk_Read(d, sec, temp))
       IN  Sector(I_data(nbuf, noff, beginSector))

\* the bytes File_Read(fd, buffer, size) stores for an entry in use
File_Read_Bytes(d, of, fd, size) ==
  ReadLoop(d, Disk_Read(d, InodeSector(of[fd].inode), EmptyBuf), InodeOff(of[fd].inode),
           of[fd].pos \div SECTOR_SIZE, of[fd].pos % SECTOR_SIZE, size, EmptyBuf, <<>>)

\* the bytes buffer[count+1 ..] that one round of File_Write stores from byte
\* beginByte of its zeroed writeBuffer
WriteBuffer(buffer, count, beginByte) ==
  PutBytes(EmptyBuf,
           [i \in beginByte..(beginByte + Min(SECTOR_SIZE - beginByte, Len(buffer) - count) - 1)
              |-> buffer[count + (i - beginByte) + 1]])

\* the while loop of File_Write: a sector is taken from the bitmap in every round.
\* u is what bitmap_first_unused returned and left, w the disk and the inode
\* buffer after the round
RECURSIVE WriteLoop(_, _, _, _, _, _, _)
WriteLoop(d, nbuf, noff, beginSector, beginByte, buffer, count) ==
  IF count >= Len(buffer) THEN [disk |-> d, nbuf |-> nbuf]
  ELSE CHOOSE r \in
         {WriteLoop(w.disk, w.nbuf, noff, beginSector + 1, 0, buffer,
                    count + Min(SECTOR_SIZE - beginByte, Len(buffer) - count)) :
            w \in {\* node->data[beginSector] = firstUnused;
                   \* Disk_Write(node->data[beginSector++], writeBuffer)
                   [disk |-> Disk_Write(u.disk, u.pos, WriteBuffer(buffer, count, beginByte)),
                    nbuf |-> PutInt(nbuf, noff + 2 * SizeofInt + beginSector * SizeofInt,
                                    u.pos)] :
                     u \in {bitmap_first_unused(d, SECTOR_BITMAP_START_SECTOR,
                                                SECTOR_BITMAP_SECTORS, SECTOR_BITMAP_SIZE)}}} :
         TRUE

\* the disk after File_Write(fd, buffer, Len(buffer)) for an entry in use
File_Write_Disk(d, of, fd, buffer) ==
  LET Written(w, noff) ==
        \* node->size += count; Disk_Write(inode_sector, inode_buffer)
        Disk_Write(w.disk, InodeSector(of[fd].inode),
                   PutInt(w.nbuf, noff, I_size(w.nbuf, noff) + Len(buffer)))
  IN  Written(WriteLoop(d, Disk_Read(d, InodeSector(of[fd].inode), EmptyBuf),
                        InodeOff(of[fd].inode), of[fd].pos \div SECTOR_SIZE,
                        of[fd].pos % SECTOR_SIZE, buffer, 0),
              InodeOff(of[fd].inode))

(***************************************************************************)
(* Reading directories.  The values are sets of outcomes.                  *)
(***************************************************************************)
\* the values an int that follow_path was to assign can have after the call
LastInodes(fp) == IF fp.set THEN {fp.last_inode} ELSE UninitWords

\* Dir_Size(path): directory->size is read through the pointer getInodeHelper
\* returned, before any other call is made
Dir_Size_Results(d, of, path) ==
  LET Sized(child_inode) ==
        IF child_inode >= 0
        THEN IF ~ValidSector(InodeSector(child_inode)) THEN {Aborted(d, of)}
             ELSE {Aborted(d, of),
                   Outcome(InodeOf(d, child_inode).size * SizeofDirent, "", d, of, <<>>, FALSE)}
        ELSE {Outcome(0, "", d, of, <<>>, FALSE)}
      Resolved(fp) == UNION {Sized(c) : c \in LastInodes(fp)}
  IN  Resolved(follow_path(d, path))

\* Dir_Read(path, buffer, size) from if(Dir_Size(path) > size) on: the loop over
\* directory->data[] stores nothing in buffer, and the function ends in return -1
DirReadTail(d, of, path, size) ==
  {IF s.halted THEN s
   ELSE IF s.ret > size THEN Outcome(-1, "E_BUFFER_TOO_SMALL", d, of, <<>>, FALSE)
   ELSE Outcome(-1, "", d, of, <<>>, FALSE) : s \in Dir_Size_Results(d, of, path)}

\* Dir_Read(path, buffer, size)
Dir_Read_Results(d, of, path, size) ==
  LET Loaded(d_inode) ==
        IF ~ValidSector(InodeSector(d_inode)) THEN {Outcome(-1, "", d, of, <<>>, FALSE)}
        \* assert(0 <= offset && offset < INODES_PER_SECTOR) ends the process in a
        \* build with assertions and is no statement in one without
        ELSE IF InodeOff(d_inode) < 0 \/ InodeOff(d_inode) >= INODES_PER_SECTOR * SizeofInode
        THEN {Aborted(d, of)} \cup DirReadTail(d, of, path, size)
        ELSE DirReadTail(d, of, path, size)
      Resolved(fp) == UNION {Loaded(c) : c \in LastInodes(fp)}
  IN  Resolved(follow_path(d, path))

(***************************************************************************)
(* FS_Boot.                                                                *)
(***************************************************************************)
\* the disk FS_Boot formats when the backstore file does not exist
Format ==
  LET Root(d) ==
        \* the inode table is zeroed, but for the type of the root directory
        Disk_Write(d, INODE_TABLE_START_SECTOR, PutInt(EmptyBuf, SizeofInt, 1))
  IN  Root(bitmap_init(bitmap_init(Disk_Write([s \in {} |-> EmptyBuf],
                                              SUPERBLOCK_START_SECTOR,
                                              PutBytes(EmptyBuf,
                                                       [i \in 0..3 |-> OS_MAGIC[i + 1]])),
                                   INODE_BITMAP_START_SECTOR, INODE_BITMAP_SECTORS, 1),
                       SECTOR_BITMAP_START_SECTOR, SECTOR_BITMAP_SECTORS,
                       DATABLOCK_START_SECTOR))

\* check_magic() on an image: TRUE for 1
check_magic(d) ==
  \A i \in 0..3 : ByteAt(Disk_Read(d, SUPERBLOCK_START_SECTOR, EmptyBuf), i) = OS_MAGIC[i + 1]

(***************************************************************************)
(* The calls of the API as actions.  Every action is one whole call.       *)
(***************************************************************************)
Call(op, path, fd, arg, buf) == [op |-> op, path |-> path, fd |-> fd, arg |-> arg, buf |-> buf]

NoRt == [stage |-> 0, fd |-> -1, buf |-> <<>>, ok |-> TRUE]

\* the history of a sequence fd = File_Open(..); File_Write(fd, buf, n);
\* File_Seek(fd, 0); File_Read(fd, out, n): stage counts the calls of the sequence
\* made so far, ok tells whether each returned what the sequence expects
RtStep(c, o) ==
  IF o.halted THEN NoRt
  ELSE IF c.op = "File_Open" /\ o.ret >= 0
  THEN [stage |-> 1, fd |-> o.ret, buf |-> <<>>, ok |-> TRUE]
  ELSE IF rt.stage = 1 /\ c.op = "File_Write" /\ c.fd = rt.fd
  THEN [stage |-> 2, fd |-> rt.fd, buf |-> c.buf, ok |-> o.ret = Len(c.buf)]
  ELSE IF rt.stage = 2 /\ c.op = "File_Seek" /\ c.fd = rt.fd /\ c.arg = 0
  THEN [stage |-> 3, fd |-> rt.fd, buf |-> rt.buf, ok |-> rt.ok /\ o.ret = 0]
  ELSE IF rt.stage = 3 /\ c.op = "File_Read" /\ c.fd = rt.fd /\ c.arg = Len(rt.buf)
  THEN [stage |-> 4, fd |-> rt.fd, buf |-> rt.buf,
        ok |-> rt.ok /\ o.ret = Len(rt.buf) /\ o.out = rt.buf]
  ELSE NoRt

\* the paths created with success that no unlink call has named since
MadeStep(c, o) ==
  IF c.op \in {"File_Create", "Dir_Create"} /\ o.ret = 0 /\ ~o.halted
  THEN made \cup {c.path}
  ELSE IF c.op \in {"File_Unlink", "Dir_Unlink"} THEN made \ {c.path}
  ELSE made

\* the caller makes call c, which has outcome o
Step(c, o) ==
  /\ left > 0
  /\ ~halted
  /\ left' = left - 1
  /\ call' = c
  /\ ret' = IF o.halted THEN ret ELSE o.ret
  /\ osErrno' = IF o.errno = "" THEN osErrno ELSE o.errno
  /\ disk' = o.disk
  /\ open_files' = o.of
  /\ out' = o.out
  /\ halted' = o.halted
  /\ made' = MadeStep(c, o)
  /\ rt' = RtStep(c, o)
  /\ UNCHANGED backstore

File_Create(file) ==
  \E r \in {create_file_or_directory(disk, 0, file)} :
    Step(Call("File_Create", file, -1, 0, <<>>),
         Outcome(r.ret, r.errno, r.disk, open_files, <<>>, FALSE))

Dir_Create(path) ==
  \E r \in {create_file_or_directory(disk, 1, path)} :
    Step(Call("Dir_Create", path, -1, 0, <<>>),
         Outcome(r.ret, r.errno, r.disk, open_files, <<>>, FALSE))

File_Unlink(file) ==
  \E o \in delete_helper(disk, open_files, 0, file) :
    Step(Call("File_Unlink", file, -1, 0, <<>>), o)

\* path == "/" compares two pointers: it is true for no path but "/", and for "/"
\* when the caller's string and the literal of the library are one object
Dir_Unlink(path) ==
  \/ /\ path = <<47>>
     /\ Step(Call("Dir_Unlink", path, -1, 0, <<>>),
             Outcome(-1, "E_ROOT_DIR", disk, open_files, <<>>, FALSE))
  \/ \E o \in delete_helper(disk, open_files, 1, path) :
       Step(Call("Dir_Unlink", path, -1, 0, <<>>), o)

File_Open(file) ==
  \E o \in File_Open_Results(disk, open_files, file) :
    Step(Call("File_Open", file, -1, 0, <<>>), o)

File_Read(fd, size) ==
  IF open_files[fd].inode = 0
  THEN Step(Call("File_Read", <<>>, fd, size, <<>>),
            Outcome(-1, "E_BAD_FD", disk, open_files, <<>>, FALSE))
  ELSE \E data \in {File_Read_Bytes(disk, open_files, fd, size)} :
         \* open_files[fd].pos += count; return count
         Step(Call("File_Read", <<>>, fd, size, <<>>),
              Outcome(Len(data), "", disk,
                      [open_files EXCEPT ![fd].pos = @ + Len(data)], data, FALSE))

File_Write(fd, buffer) ==
  IF open_files[fd].inode = 0
  THEN Step(Call("File_Write", <<>>, fd, Len(buffer), buffer),
            Outcome(-1, "E_BAD_FD", disk, open_files, <<>>, FALSE))
  ELSE \* open_files[fd].pos += count; open_files[fd].size += count; return count
       Step(Call("File_Write", <<>>, fd, Len(buffer), buffer),
            Outcome(Len(buffer), "", File_Write_Disk(disk, open_files, fd, buffer),
                    [open_files EXCEPT ![fd].pos = @ + Len(buffer),
                                       ![fd].size = @ + Len(buffer)],
                    <<>>, FALSE))

\* if(open_files[fd].inode = 0) stores 0 in the inode field and is never true
File_Seek(fd, offset) ==
  IF offset < 0 \/ open_files[fd].size < offset
  THEN Step(Call("File_Seek", <<>>, fd, offset, <<>>),
            Outcome(-1, "E_SEEK_OUT_OF_BOUNDS", disk, open_files, <<>>, FALSE))
  ELSE Step(Call("File_Seek", <<>>, fd, offset, <<>>),
            Outcome(0, "", disk,
                    [open_files EXCEPT ![fd].inode = 0, ![fd].pos = offset],
                    <<>>, FALSE))

File_Close(fd) ==
  IF open_files[fd].inode <= 0
  THEN Step(Call("File_Close", <<>>, fd, 0, <<>>),
            Outcome(-1, "E_BAD_FD", disk, open_files, <<>>, FALSE))
  ELSE Step(Call("File_Close", <<>>, fd, 0, <<>>),
            Outcome(0, "", disk, [open_files EXCEPT ![fd].inode = 0], <<>>, FALSE))

\* an FS_Sync that returns 0 without Disk_Save
FS_Sync_Unsaved ==
  /\ left > 0
  /\ ~halted
  /\ left' = left - 1
  /\ call' = Call("FS_Sync", <<>>, -1, 0, <<>>)
  /\ ret' = 0
  /\ out' = <<>>
  /\ made' = made
  /\ rt' = NoRt
  /\ UNCHANGED <<backstore, disk, open_files, osErrno, halted>>

\* FS_Sync(): Disk_Save copies the disk to the backstore file
FS_Sync ==
  /\ left > 0
  /\ ~halted
  /\ left' = left - 1
  /\ call' = Call("FS_Sync", <<>>, -1, 0, <<>>)
  /\ ret' = 0
  /\ backstore' = disk
  /\ out' = <<>>
  /\ made' = made
  /\ rt' = NoRt
  /\ UNCHANGED <<disk, open_files, osErrno, halted>>

Dir_Size(path) ==
  \E o \in Dir_Size_Results(disk, open_files, path) :
    Step(Call("Dir_Size", path, -1, 0, <<>>), o)

Dir_Read(path, size) ==
  \E o \in Dir_Read_Results(disk, open_files, path, size) :
    Step(Call("Dir_Read", path, -1, size, <<>>), o)

\* FS_Boot(backstore_fname) on the backstore file the library was booted with,
\* which exists: Disk_Init and Disk_Load leave the image of the file on the disk,
\* and check_magic decides the return.  With again = FALSE the call is the first
\* of a new process (open_files and osErrno are zeroed statics, whatever ended the
\* process before); with again = TRUE it is one more call of the running process.
FS_Boot(again) ==
  /\ left > 0
  /\ again => ~halted
  /\ left' = left - 1
  /\ call' = Call("FS_Boot", <<>>, -1, IF again THEN 1 ELSE 0, <<>>)
  /\ disk' = backstore
  /\ ret' = IF check_magic(backstore) THEN 0 ELSE -1
  /\ osErrno' = IF ~check_magic(backstore) THEN "E_GENERAL"
                ELSE IF again THEN osErrno ELSE ""
  /\ open_files' = IF check_magic(backstore) \/ ~again
                   THEN [fd \in Fds |-> FreeEntry]
                   ELSE open_files
  /\ halted' = FALSE
  /\ out' = <<>>
  /\ made' = {}
  /\ rt' = NoRt
  /\ UNCHANGED backstore

(***************************************************************************)
(* The state after FS_Boot.  FS_Boot formats a disk when the backstore     *)
(* file does not exist and loads the image of the file when it does; the   *)
(* image is then one that an earlier run of the library saved.             *)
(***************************************************************************)
\* the state after a successful FS_Boot that left image d on the disk, n calls
\* of the caller ahead; m are the paths that the run that saved the image had
\* created and not unlinked
Booted(d, n, m) ==
  /\ disk = d
  /\ check_magic(disk)
  /\ backstore = d
  /\ open_files = [fd \in Fds |-> FreeEntry]
  /\ osErrno = ""
  /\ call = Call("FS_Boot", <<>>, -1, 0, <<>>)
  /\ ret = 0
  /\ out = <<>>
  /\ halted = FALSE
  /\ made = m
  /\ rt = NoRt
  /\ left = n

\* the image an earlier run left after File_Create of files[1], files[2], ...
RECURSIVE Image(_, _)
Image(d, files) ==
  IF files = <<>> THEN d
  ELSE Image(create_file_or_directory(d, 0, Head(files)).disk, Tail(files))

(***************************************************************************)
(* The file system after a format, every call of the API on a few paths.   *)
(***************************************************************************)
MaxOps == 3
Paths == {<<47, 97>>, <<47, 100>>, <<47, 100, 47, 120>>, <<47>>}
Buffers == {<<104, 105>>}
Sizes == {1, 2}
Offsets == {0, 1}
DirSizes == {0, 20}

Init == Booted(Format, MaxOps, {})

Next ==
  \/ \E p \in Paths : File_Create(p)
  \/ \E p \in Paths : Dir_Create(p)
  \/ \E p \in Paths : File_Unlink(p)
  \/ \E p \in Paths : Dir_Unlink(p)
  \/ \E p \in Paths : File_Open(p)
  \/ \E fd \in Fds, n \in Sizes : File_Read(fd, n)
  \/ \E fd \in Fds, b \in Buffers : File_Write(fd, b)
  \/ \E fd \in Fds, o \in Offsets : File_Seek(fd, o)
  \/ \E fd \in Fds : File_Close(fd)
  \/ FS_Sync
  \/ \E again \in BOOLEAN : FS_Boot(again)
  \/ \E p \in Paths : Dir_Size(p)
  \/ \E p \in Paths, n \in DirSizes : Dir_Read(p, n)

Spec == Init /\ [][Next]_vars

(***************************************************************************)
(* I/O on one file: the library boots from an image in which an earlier    *)
(* run created the empty file IOFile.                                      *)
(***************************************************************************)
MaxIO == 4
IOFile == <<47, 97>>
\* one sector of 'x'
Block == [i \in 1..SECTOR_SIZE |-> 120]
IOBuffers == Buffers \cup {Block}

InitIO == Booted(Image(Format, <<IOFile>>), MaxIO, {IOFile})

NextIO ==
  \/ File_Open(IOFile)
  \/ \E fd \in Fds, n \in Sizes : File_Read(fd, n)
  \/ \E fd \in Fds, b \in IOBuffers : File_Write(fd, b)
  \/ \E fd \in Fds, o \in Offsets : File_Seek(fd, o)
  \/ \E fd \in Fds : File_Close(fd)
  \/ File_Unlink(IOFile)
  \/ FS_Sync
  \/ \E again \in BOOLEAN : FS_Boot(again)

SpecIO == InitIO /\ [][NextIO]_vars

(***************************************************************************)
(* The name space of a full root directory: the library boots from an      *)
(* image in which an earlier run created the files OldFiles, which took    *)
(* the inodes 1 .. 7 and the first entries of the root directory.          *)
(***************************************************************************)
MaxNS == 3
OldFiles == <<<<47, 97>>, <<47, 98>>, <<47, 99>>, <<47, 100>>, <<47, 101>>, <<47, 102>>,
              <<47, 103>>>>
NSPaths == {<<47, 97>>, <<47, 98>>, <<47, 103>>, <<47, 104>>, <<47>>}

InitNS == Booted(Image(Format, OldFiles), MaxNS, {OldFiles[i] : i \in DOMAIN OldFiles})

NextNS ==
  \/ \E p \in NSPaths : File_Create(p)
  \/ \E p \in NSPaths : Dir_Create(p)
  \/ \E p \in NSPaths : File_Unlink(p)
  \/ \E p \in NSPaths : Dir_Unlink(p)

SpecNS == InitNS /\ [][NextNS]_vars

(***************************************************************************)
(* A volume in use: the library boots from an image in which an earlier    *)
(* run created the file IOFile, wrote it Rewrites times (File_Open,         *)
(* File_Write of 2 bytes, File_Close each time), and created the directory *)
(* /d and the directory /d/x in it.                                        *)
(***************************************************************************)
MaxSB == 4
Rewrites == 6
SBDir == <<47, 100>>
SBSub == <<47, 100, 47, 120>>

\* the disk after n times File_Open, File_Write(fd, "hi", 2), File_Close on inode
RECURSIVE Rewritten(_, _, _)
Rewritten(d, inode, n) ==
  IF n = 0 THEN d
  ELSE CHOOSE r \in {Rewritten(w, inode, n - 1) :
                       w \in {File_Write_Disk(d, [fd \in Fds |-> [inode |-> inode, size |-> 0,
                                                                 pos |-> 0]],
                                              0, <<104, 105>>)}} : TRUE

\* the image after Dir_Create of dirs[1], dirs[2], ...
RECURSIVE WithDirs(_, _)
WithDirs(d, dirs) ==
  IF dirs = <<>> THEN d
  ELSE CHOOSE r \in {WithDirs(w, Tail(dirs)) :
                       w \in {create_file_or_directory(d, 1, Head(dirs)).disk}} : TRUE

InitSB ==
  \E a \in {Image(Format, <<IOFile>>)} :
    \E b \in {Rewritten(a, 1, Rewrites)} :
      \E c \in {WithDirs(b, <<SBDir, SBSub>>)} :
        Booted(c, MaxSB, {IOFile, SBDir, SBSub})

NextSB ==
  \/ \E p \in {SBDir, SBSub, <<47>>} : Dir_Unlink(p)
  \/ File_Open(IOFile)
  \/ \E fd \in Fds, b \in Buffers : File_Write(fd, b)
  \/ FS_Sync
  \/ \E again \in BOOLEAN : FS_Boot(again)

SpecSB == InitSB /\ [][NextSB]_vars

\* the same image, on which /a is opened, written over, read and closed
NextOW ==
  \/ File_Open(IOFile)
  \/ \E fd \in Fds, b \in Buffers : File_Write(fd, b)
  \/ \E fd \in Fds, n \in Sizes : File_Read(fd, n)
  \/ \E fd \in Fds : File_Close(fd)

SpecOW == InitSB /\ [][NextOW]_vars

(***************************************************************************)
(* Writing past the last sector of a file: the image of SpecIO, and a      *)
(* buffer one byte longer than MAX_SECTORS_PER_FILE sectors.               *)
(***************************************************************************)
MaxBig == 3
Huge == [i \in 1..(MAX_SECTORS_PER_FILE * SECTOR_SIZE + 1) |-> 120]

InitBig == Booted(Image(Format, <<IOFile>>), MaxBig, {IOFile})

NextBig ==
  \/ File_Open(IOFile)
  \/ \E fd \in Fds, b \in Buffers \cup {Huge} : File_Write(fd, b)
  \/ \E fd \in Fds, n \in Sizes : File_Read(fd, n)
  \/ \E fd \in Fds : File_Close(fd)

SpecBig == InitBig /\ [][NextBig]_vars

(***************************************************************************)
(* Creating on paths that do not lead to a parent directory: a formatted   *)
(* volume, and paths with a missing or regular-file component, a space in  *)
(* a name, a name of MAX_NAME characters, no leading '/'.                  *)
(***************************************************************************)
MaxCR == 4
LongName == [i \in 1..MAX_NAME |-> 97]
CRPaths == {<<47, 100>>, <<47, 100, 47, 120>>, <<47, 98, 32, 100>>,
            <<47, 98, 32, 100, 47, 120>>, <<100>>, <<47>> \o LongName}

InitCR == Booted(Format, MaxCR, {})

NextCR ==
  \/ \E p \in CRPaths : File_Create(p)
  \/ \E p \in CRPaths : Dir_Create(p)

SpecCR == InitCR /\ [][NextCR]_vars

(***************************************************************************)
(* The three bitmap functions on their own: a zeroed disk, as Disk_Init    *)
(* leaves it, and calls of bitmap_init, bitmap_first_unused and            *)
(* bitmap_reset on the inode bitmap and on the sector bitmap.              *)
(***************************************************************************)
MaxBM == 2
\* the two bitmaps of the volume, as <<start, num>>
Bitmaps == {<<INODE_BITMAP_START_SECTOR, INODE_BITMAP_SECTORS>>,
            <<SECTOR_BITMAP_START_SECTOR, SECTOR_BITMAP_SECTORS>>}
\* nbits of bitmap_init: none, the two values FS_Boot passes, whole bytes, some
\* bits of a byte, one sector of bits, more than one sector of bits
Prefixes == {0, 1, 3, 16, DATABLOCK_START_SECTOR, SECTOR_SIZE * 8, SECTOR_SIZE * 8 + 3}
\* nbits of bitmap_first_unused: two bytes of bits, and the values the callers pass
Ranges == {16, INODE_BITMAP_SIZE, SECTOR_BITMAP_SIZE}
\* ibit of bitmap_reset
Bits == {0, 1, 8, 15}

InitBM ==
  /\ disk = [s \in {} |-> EmptyBuf]
  /\ backstore = disk
  /\ open_files = [fd \in Fds |-> FreeEntry]
  /\ osErrno = ""
  /\ call = Call("Disk_Init", <<>>, -1, 0, <<>>)
  /\ ret = 0
  /\ out = <<>>
  /\ halted = FALSE
  /\ made = {}
  /\ rt = NoRt
  /\ left = MaxBM

Call_bitmap_init(b, nbits) ==
  \E d \in {bitmap_init(disk, b[1], b[2], nbits)} :
    Step(Call("bitmap_init", <<>>, -1, nbits, b),
         Outcome(0, "", d, open_files, <<>>, FALSE))

Call_bitmap_first_unused(b, nbits) ==
  \E r \in {bitmap_first_unused(disk, b[1], b[2], nbits)} :
    Step(Call("bitmap_first_unused", <<>>, -1, nbits, b),
         Outcome(r.pos, "", r.disk, open_files, <<>>, FALSE))

Call_bitmap_reset(b, ibit) ==
  \E d \in {bitmap_reset(disk, b[1], b[2], ibit)} :
    Step(Call("bitmap_reset", <<>>, -1, ibit, b),
         Outcome(0, "", d, open_files, <<>>, FALSE))

NextBM ==
  \/ \E b \in Bitmaps, nbits \in Prefixes : Call_bitmap_init(b, nbits)
  \/ \E b \in Bitmaps, nbits \in Ranges : Call_bitmap_first_unused(b, nbits)
  \/ \E b \in Bitmaps, ibit \in Bits : Call_bitmap_reset(b, ibit)

SpecBM == InitBM /\ [][NextBM]_vars

(***************************************************************************)
(* A volume that is out of sectors: /a and /b were created, and /a was     *)
(* rewritten from position 0 with NUL bytes until bitmap_first_unused      *)
(* found no sector; /b has no sector yet.                                  *)
(***************************************************************************)
MaxFull == 3
FullFile == <<47, 98>>
NulBytes(n) == [i \in 1..n |-> 0]

\* the zero bits bitmap_first_unused scans with the nbits File_Write passes: those
\* of the first sector of the sector bitmap
FreeSectors(d) ==
  SECTOR_SIZE * 8
    - Cardinality(OnesOf(Disk_Read(d, SECTOR_BITMAP_START_SECTOR, EmptyBuf), 0))

\* File_Write(fd, buffer, size) found the sector bitmap full
NoSpace(d) ==
  bitmap_first_unused(d, SECTOR_BITMAP_START_SECTOR, SECTOR_BITMAP_SECTORS,
                      SECTOR_BITMAP_SIZE).pos = -1

\* the image after File_Write calls at position 0 of the file with that inode, of
\* up to MAX_SECTORS_PER_FILE sectors of NUL bytes each, that take every sector
RECURSIVE Worn(_, _)
Worn(d, inode) ==
  IF FreeSectors(d) = 0 THEN d
  ELSE CHOOSE r \in
         {Worn(w, inode) :
            w \in {File_Write_Disk(d, [fd \in Fds |-> [inode |-> inode, size |-> 0,
                                                       pos |-> 0]],
                                   0, NulBytes(SECTOR_SIZE * Min(f, MAX_SECTORS_PER_FILE))) :
                     f \in {FreeSectors(d)}}} : TRUE

InitFull ==
  \E a \in {Image(Format, <<IOFile, FullFile>>)} :
    \E b \in {Worn(a, 1)} :
      Booted(b, MaxFull, {IOFile, FullFile})

NextFull ==
  \/ \E p \in {IOFile, FullFile} : File_Open(p)
  \/ \E fd \in Fds, b \in Buffers : File_Write(fd, b)
  \/ \E fd \in Fds, n \in Sizes : File_Read(fd, n)
  \/ \E fd \in Fds : File_Close(fd)

SpecFull == InitFull /\ [][NextFull]_vars

(***************************************************************************)
(* What the properties below read from a disk.                             *)
(***************************************************************************)
Max(a, b) == IF a >= b THEN a ELSE b

\* the logical bits that are 1 in the bitmap of num sectors that starts at start
Ones(d, start, num) ==
  UNION {OnesOf(Disk_Read(d, start + s, EmptyBuf), SECTOR_SIZE * 8 * s) : s \in 0..(num - 1)}

\* the sectors of the disk outside that bitmap
Outside(d, start, num) ==
  [s \in DOMAIN d \ (start..(start + num - 1)) |-> d[s]]

\* the inodes whose bit in the inode bitmap is 1
LiveInodes(d) ==
  UNION {OnesOf(Disk_Read(d, INODE_BITMAP_START_SECTOR + s, EmptyBuf), SECTOR_SIZE * 8 * s) :
           s \in 0..(INODE_BITMAP_SECTORS - 1)}

DataIndex == 0..(MAX_SECTORS_PER_FILE - 1)

\* the live inodes that are directories
LiveDirs(d) == {i \in LiveInodes(d) : InodeOf(d, i).type = 1}

\* the C string at offset o of a sector buffer, MAX_NAME bytes at most
StrAt(buf, o) ==
  [i \in 1..Least({n \in 0..MAX_NAME : n = MAX_NAME \/ ByteAt(buf, o + n) = 0}) |->
     ByteAt(buf, o + i - 1)]

\* the fname of every entry slot of directory i: <<k, slot>> -> fname, k the
\* index in data[] of the sector of the slot
Fnames(d, i) ==
  [x \in {k \in DataIndex : InodeOf(d, i).data[k] # 0} \X (0..(DIRENTS_PER_SECTOR - 1)) |->
     StrAt(Disk_Read(d, InodeOf(d, i).data[x[1]], EmptyBuf), x[2] * SizeofDirent)]

\* the step is a call op(path) that returned
Returned(op) == call'.op = op /\ ~halted'

\* the inode a path names on a disk, -1 when it names none
Lookup(d, path) ==
  IF follow_path(d, path).set THEN follow_path(d, path).last_inode ELSE -1

\* path names a regular file other than through the root
NamesFile(d, path) ==
  /\ Lookup(d, path) > 0
  /\ InodeOf(d, Lookup(d, path)).type = 0

\* what the read-only calls on path return on disk d when no file is open:
\* Dir_Size(path), File_Open(path), and File_Read(fd, buf, n) from position 0
ReadOnly(d, path) ==
  [size |-> {<<o.ret, o.halted>> : o \in Dir_Size_Results(d, [fd \in Fds |-> FreeEntry], path)},
   open |-> {<<o.ret, o.errno, o.halted>> :
               o \in File_Open_Results(d, [fd \in Fds |-> FreeEntry], path)},
   read |-> {File_Read_Bytes(d, x[1].of, x[1].ret, x[2]) :
               x \in {o \in File_Open_Results(d, [fd \in Fds |-> FreeEntry], path) :
                        o.ret >= 0} \X Sizes}]

\* byte k of the content of a file whose inode record is node: the byte at
\* k % SECTOR_SIZE of sector data[k / SECTOR_SIZE], 0 where data[] has no sector
FileByte(d, node, k) ==
  IF node.data[k \div SECTOR_SIZE] = 0 THEN 0
  ELSE ByteAt(Disk_Read(d, node.data[k \div SECTOR_SIZE], EmptyBuf), k % SECTOR_SIZE)

\* the components of a path: what stands between its '/'
Components(path) == SelectSeq(StrSep(Tail(path), <<>>), LAMBDA t : t # <<>>)

\* the path of the first k components
RECURSIVE PrefixPath(_, _)
PrefixPath(comps, k) ==
  IF k = 0 THEN <<>> ELSE PrefixPath(comps, k - 1) \o <<47>> \o comps[k]

\* the path of the directory that holds the last component of a path
Dirname(path) == PrefixPath(Components(path), Len(Components(path)) - 1)

\* a name is illegal: its length is outside 1 .. MAX_NAME-1, or it has a byte
\* that is no letter, digit, '.', '-' or '_'
IllegalName(t) ==
  \/ Len(t) < 1 \/ Len(t) > MAX_NAME - 1
  \/ \E i \in 1..Len(t) :
       t[i] \notin (48..57) \cup (65..90) \cup (97..122) \cup {46, 45, 95}

\* path does not lead to a parent directory on disk d: it is not absolute, a
\* component is an illegal name, or a component before the last names nothing
\* or names no directory
NoParent(d, path) ==
  \/ path = <<>>
  \/ path[1] # 47
  \/ \E c \in {Components(path)} :
       \/ \E k \in 1..Len(c) : IllegalName(c[k])
       \/ \E k \in 1..(Len(c) - 1) :
            \/ Lookup(d, PrefixPath(c, k)) < 0
            \/ InodeOf(d, Lookup(d, PrefixPath(c, k))).type # 1

(***************************************************************************)
(* Properties.                                                             *)
(***************************************************************************)
\* C1: when the calls fd = File_Open(path); File_Write(fd, buf, n); File_Seek(fd, 0);
\* File_Read(fd, out, n) have been made in a row, the write returned n, the seek 0,
\* the read n, and out holds buf[0..n).
C1_RoundTrip == rt.stage = 4 => rt.ok

\* C2: after a successful call, every nonzero data[k] of every inode whose
\* inode-bitmap bit is 1 names a sector whose sector-bitmap bit is 1, that lies
\* outside the metadata region [0, DATABLOCK_START_SECTOR), and that no other
\* data[] slot of a live inode names.
C2_SectorsOwned ==
  (~halted /\ ret >= 0) =>
    \A i \in LiveInodes(disk), k \in DataIndex :
      InodeOf(disk, i).data[k] # 0 =>
        /\ SectorBit(disk, InodeOf(disk, i).data[k]) = 1
        /\ InodeOf(disk, i).data[k] >= DATABLOCK_START_SECTOR
        /\ \A j \in LiveInodes(disk), m \in DataIndex :
             <<j, m>> # <<i, k>> => InodeOf(disk, j).data[m] # InodeOf(disk, i).data[k]

\* C3: no directory holds two entry slots with the same (nonempty) fname.
C3_UniqueNames ==
  ~halted =>
    \A i \in LiveDirs(disk) :
      \A f \in {Fnames(disk, i)} :
        \A x, y \in DOMAIN f : (x # y /\ f[x] # <<>>) => f[x] # f[y]

\* C4: after File_Unlink(path) returned 0, the inode path named has its
\* inode-bitmap bit 0 and every sector its data[] named has its sector-bitmap bit 0.
C4_UnlinkFrees ==
  [][(Returned("File_Unlink") /\ ret' = 0 /\ Lookup(disk, call'.path) >= 0) =>
       /\ InodeBit(disk', Lookup(disk, call'.path)) = 0
       /\ \A k \in DataIndex :
            InodeOf(disk, Lookup(disk, call'.path)).data[k] # 0 =>
              SectorBit(disk', InodeOf(disk, Lookup(disk, call'.path)).data[k]) = 0]_vars

\* C5: File_Unlink of a file that an open-file entry refers to returns -1 with
\* E_FILE_IN_USE and leaves the disk as it is; File_Unlink of a file right after
\* the File_Close that closed the last descriptor on it returns 0.
C5_OpenPreventsUnlink ==
  [][(call'.op = "File_Unlink" /\ NamesFile(disk, call'.path)) =>
       /\ is_file_open(open_files, Lookup(disk, call'.path)) =>
            (~halted' /\ ret' = -1 /\ osErrno' = "E_FILE_IN_USE" /\ disk' = disk)
       /\ (/\ ~is_file_open(open_files, Lookup(disk, call'.path))
           /\ call.op = "File_Close" /\ ret = 0
           /\ ~halted') => ret' = 0]_vars

\* C6: File_Unlink of an existing regular file that no open-file entry refers to
\* returns 0, whatever the size of the file.
C6_UnlinkAnySize ==
  [][(/\ Returned("File_Unlink")
      /\ NamesFile(disk, call'.path)
      /\ ~is_file_open(open_files, Lookup(disk, call'.path))) => ret' = 0]_vars

\* C7: File_Create or Dir_Create of a path that was created with success and not
\* unlinked since returns -1 with E_CREATE and leaves the disk (both bitmaps, the
\* inode table, the parent directory) as it is.
C7_CreateExisting ==
  [][(call'.op \in {"File_Create", "Dir_Create"} /\ call'.path \in made) =>
       (~halted' /\ ret' = -1 /\ osErrno' = "E_CREATE" /\ disk' = disk)]_vars

\* C8: File_Seek(fd, offset) that returns 0 on an open descriptor changes the pos
\* of that entry to offset and nothing else of the open-file table.
C8_SeekFrame ==
  [][(Returned("File_Seek") /\ ret' = 0 /\ open_files[call'.fd].inode > 0) =>
       open_files' = [open_files EXCEPT ![call'.fd].pos = call'.arg]]_vars

\* C9: File_Read(fd, buf, n) on an open descriptor at position pos of a file of
\* size size stores min(n, size - pos) bytes, returns that number and advances pos
\* by it.
C9_ReadLength ==
  [][(Returned("File_Read") /\ open_files[call'.fd].inode > 0) =>
       /\ ret' = Min(call'.arg,
                     InodeOf(disk, open_files[call'.fd].inode).size - open_files[call'.fd].pos)
       /\ Len(out') = ret'
       /\ open_files'[call'.fd].pos = open_files[call'.fd].pos + ret']_vars

\* C10: File_Write(fd, buf, n) that returns n on an open descriptor advances pos by
\* n and leaves max(old size, new pos) as the size of the inode and of the entry.
C10_WriteSize ==
  [][(Returned("File_Write") /\ open_files[call'.fd].inode > 0 /\ ret' = call'.arg) =>
       /\ open_files'[call'.fd].pos = open_files[call'.fd].pos + call'.arg
       /\ InodeOf(disk', open_files[call'.fd].inode).size
            = Max(InodeOf(disk, open_files[call'.fd].inode).size,
                  open_files[call'.fd].pos + call'.arg)
       /\ open_files'[call'.fd].size = InodeOf(disk', open_files[call'.fd].inode).size]_vars

\* C11: after every sequence of calls, FS_Sync and FS_Boot among them, the first
\* four bytes of sector 0 are OS_MAGIC: no create, write or unlink hands out or
\* overwrites the superblock.
C11_Superblock == ~halted => check_magic(disk)

\* C12: right after formatting and after every call that returned, the bit of the
\* sector bitmap is 1 for every sector below DATABLOCK_START_SECTOR (superblock,
\* both bitmaps, inode table).
C12_MetadataMarked ==
  ~halted => \A s \in 0..(DATABLOCK_START_SECTOR - 1) : SectorBit(disk, s) = 1

\* C13: inode 0 always has its bit of the inode bitmap at 1 and type 1
\* (directory): no create takes it and no unlink clears or retypes it.
C13_RootInode ==
  ~halted => (InodeBit(disk, 0) = 1 /\ InodeOf(disk, 0).type = 1)

\* C14: every live file inode of size n has ceil(n / SECTOR_SIZE) <=
\* MAX_SECTORS_PER_FILE, and exactly the first ceil(n / SECTOR_SIZE) entries of
\* its data[] are nonzero.
C14_FileSectors ==
  ~halted =>
    \A i \in LiveInodes(disk) : \A n \in {InodeOf(disk, i)} :
      n.type = 0 =>
        /\ n.size <= MAX_SECTORS_PER_FILE * SECTOR_SIZE
        /\ {k \in DataIndex : n.data[k] # 0} = {k \in DataIndex : k * SECTOR_SIZE < n.size}

\* C15: after a create or unlink that returned 0, every live directory of size n
\* has exactly the first ceil(n / DIRENTS_PER_SECTOR) entries of data[] nonzero,
\* and of the slots of those sectors the first n hold an entry (no zeroed hole)
\* and the others are zero.
C15_DirCompact ==
  (~halted /\ ret = 0
     /\ call.op \in {"File_Create", "Dir_Create", "File_Unlink", "Dir_Unlink"}) =>
    \A i \in LiveDirs(disk) : \A n \in {InodeOf(disk, i)} :
      /\ {k \in DataIndex : n.data[k] # 0}
           = {k \in DataIndex : k * DIRENTS_PER_SECTOR < n.size}
      /\ \A f \in {Fnames(disk, i)} : \A x \in DOMAIN f :
           (x[1] * DIRENTS_PER_SECTOR + x[2] < n.size) <=> (f[x] # <<>>)

C17_DirRead ==
  [][(call'.op = "Dir_Read" /\ Lookup(disk, call'.path) >= 0
        /\ InodeOf(disk, Lookup(disk, call'.path)).type = 1) =>
       \A need \in {InodeOf(disk, Lookup(disk, call'.path)).size * SizeofDirent} :
         /\ ~halted'
         /\ IF call'.arg >= need
            THEN ret' = need
            ELSE ret' = -1 /\ osErrno' = "E_BUFFER_TOO_SMALL"]_vars

\* C18: File_Open(path) of a regular file returns the lowest free slot, set to
\* {inode, size of the inode, pos 0}, and leaves the other slots; it fails with
\* E_TOO_MANY_OPEN_FILES exactly when no slot is free, with E_GENERAL when path
\* names a directory, with E_NO_SUCH_FILE when path names nothing, and a failed
\* open leaves the table as it is.
C18_Open ==
  [][call'.op = "File_Open" =>
       /\ ~halted'
       /\ IF new_file_fd(open_files) < 0
          THEN ret' = -1 /\ osErrno' = "E_TOO_MANY_OPEN_FILES" /\ open_files' = open_files
          ELSE IF NamesFile(disk, call'.path)
          THEN /\ ret' = new_file_fd(open_files)
               /\ open_files' =
                    [open_files EXCEPT
                       ![ret'] = [inode |-> Lookup(disk, call'.path),
                                  size |-> InodeOf(disk, Lookup(disk, call'.path)).size,
                                  pos |-> 0]]
          ELSE /\ ret' = -1
               /\ open_files' = open_files
               /\ osErrno' = IF Lookup(disk, call'.path) >= 0 THEN "E_GENERAL"
                             ELSE "E_NO_SUCH_FILE"]_vars

\* C19: File_Read, File_Write, File_Seek and File_Close on an fd outside
\* 0..MAX_OPEN_FILES-1 or on a free entry return -1 with E_BAD_FD and change
\* neither the disk nor the open-file table.
C19_BadFd ==
  [][(call'.op \in {"File_Read", "File_Write", "File_Seek", "File_Close"}
        /\ (call'.fd \notin Fds \/ open_files[call'.fd].inode <= 0)) =>
       (~halted' /\ ret' = -1 /\ osErrno' = "E_BAD_FD"
          /\ disk' = disk /\ open_files' = open_files)]_vars

\* C20: unlinking a path whose parent exists and whose last component names
\* nothing returns -1, with E_NO_SUCH_FILE from File_Unlink and E_NO_SUCH_DIR from
\* Dir_Unlink, and leaves the disk as it is.
C20_UnlinkMissing ==
  [][(call'.op \in {"File_Unlink", "Dir_Unlink"}
        /\ \E fp \in {follow_path(disk, call'.path)} :
             fp.set /\ fp.ret >= 0 /\ fp.last_inode = -1) =>
       (~halted' /\ ret' = -1 /\ disk' = disk
          /\ osErrno' = IF call'.op = "File_Unlink" THEN "E_NO_SUCH_FILE"
                        ELSE "E_NO_SUCH_DIR")]_vars

\* C21: a Dir_Unlink that returned, on a path naming a directory other than the
\* root, returned -1 with E_DIR_NOT_EMPTY and changed nothing when the size of the
\* directory was greater than 0; when the size was 0 (every entry unlinked) it
\* returned 0 and the path names nothing any more.
C21_DirNotEmpty ==
  [][(Returned("Dir_Unlink") /\ Lookup(disk, call'.path) > 0
        /\ InodeOf(disk, Lookup(disk, call'.path)).type = 1) =>
       IF InodeOf(disk, Lookup(disk, call'.path)).size > 0
       THEN /\ ret' = -1 /\ osErrno' = "E_DIR_NOT_EMPTY"
            /\ disk' = disk /\ open_files' = open_files
       ELSE /\ ret' = 0
            /\ Lookup(disk', call'.path) = -1]_vars

\* C22: Dir_Unlink("/") returns -1 with E_ROOT_DIR in every state, whatever the
\* root holds and whatever the open-file table holds, and with no other error.
C22_RootUnlink ==
  [][(call'.op = "Dir_Unlink" /\ call'.path = <<47>>) =>
       (~halted' /\ ret' = -1 /\ osErrno' = "E_ROOT_DIR")]_vars

\* C23: File_Seek(fd, offset) that returned, on an open descriptor, returned 0
\* when 0 <= offset <= size, size the current size of the file, and -1 with
\* E_SEEK_OUT_OF_BOUNDS and pos as it was otherwise.
C23_SeekBounds ==
  [][(Returned("File_Seek") /\ open_files[call'.fd].inode > 0) =>
       IF 0 <= call'.arg /\ call'.arg <= InodeOf(disk, open_files[call'.fd].inode).size
       THEN ret' = 0
       ELSE /\ ret' = -1 /\ osErrno' = "E_SEEK_OUT_OF_BOUNDS"
            /\ open_files'[call'.fd].pos = open_files[call'.fd].pos]_vars

\* C24: a File_Write on an open descriptor whose end position pos + n exceeds
\* MAX_SECTORS_PER_FILE * SECTOR_SIZE returns -1 with E_FILE_TOO_BIG, and stores
\* nothing in the word that follows data[MAX_SECTORS_PER_FILE - 1] in the inode
\* table (the size of the next inode).
C24_FileTooBig ==
  [][(call'.op = "File_Write" /\ open_files[call'.fd].inode > 0
        /\ open_files[call'.fd].pos + call'.arg > MAX_SECTORS_PER_FILE * SECTOR_SIZE) =>
       /\ ~halted' /\ ret' = -1 /\ osErrno' = "E_FILE_TOO_BIG"
       /\ InodeOf(disk', open_files[call'.fd].inode + 1)
            = InodeOf(disk, open_files[call'.fd].inode + 1)]_vars

\* C30: a File_Write(fd, buf, n) that returned n at position pos left buf in the
\* bytes pos .. pos+n-1 of the file and every other byte of the file, below the
\* size it had, as it was.
C30_WriteFrame ==
  [][(Returned("File_Write") /\ open_files[call'.fd].inode > 0 /\ ret' = call'.arg) =>
       \A old \in {InodeOf(disk, open_files[call'.fd].inode)} :
         \A new \in {InodeOf(disk', open_files[call'.fd].inode)} :
           \A pos \in {open_files[call'.fd].pos} :
             /\ \A k \in 0..(call'.arg - 1) :
                  FileByte(disk', new, pos + k) = call'.buf[k + 1]
             /\ \A k \in 0..(old.size - 1) :
                  (k < pos \/ k >= pos + call'.arg) =>
                    FileByte(disk', new, k) = FileByte(disk, old, k)]_vars

\* C26: File_Create and Dir_Create on a path that does not lead to a parent
\* directory (not absolute, an illegal name among its components, a component
\* before the last missing or no directory) return -1 with E_CREATE and leave the
\* disk, so both bitmaps, as it is.
C26_CreateNoParent ==
  [][(call'.op \in {"File_Create", "Dir_Create"} /\ NoParent(disk, call'.path)) =>
       (~halted' /\ ret' = -1 /\ osErrno' = "E_CREATE" /\ disk' = disk)]_vars

\* a create below the regular file /d was refused and took no inode: the only live
\* inodes are the root's and that of /d
C26_Witness ==
  /\ call.op \in {"File_Create", "Dir_Create"} /\ call.path = <<47, 100, 47, 120>>
  /\ NamesFile(disk, <<47, 100>>)
  /\ ret = -1 /\ osErrno = "E_CREATE" /\ ~halted
  /\ LiveInodes(disk) = {0, 1}

\* C27: bitmap_init(start, num, nbits), nbits from 0 to the capacity of the bitmap,
\* leaves exactly the logical bits [0, nbits) equal to 1, bit i of a byte being
\* stored MSB-first, and every other bit equal to 0.
C27_InitPrefix ==
  [][(call'.op = "bitmap_init" /\ call'.arg <= call'.buf[2] * SECTOR_SIZE * 8) =>
       Ones(disk', call'.buf[1], call'.buf[2]) = 0..(call'.arg - 1)]_vars

\* C28: bitmap_first_unused over nbits logical bits returns the lowest i in
\* [0, nbits) whose bit is 0 and sets exactly that bit; it returns -1 only when all
\* nbits bits are 1, and then changes nothing.
C28_FirstUnused ==
  [][(call'.op = "bitmap_first_unused" /\ call'.arg <= call'.buf[2] * SECTOR_SIZE * 8) =>
       \A ones \in {Ones(disk, call'.buf[1], call'.buf[2])} :
         IF (0..(call'.arg - 1)) \subseteq ones
         THEN ret' = -1 /\ disk' = disk
         ELSE /\ ret' = Least((0..(call'.arg - 1)) \ ones)
              /\ Ones(disk', call'.buf[1], call'.buf[2]) = ones \cup {ret'}
              /\ Outside(disk', call'.buf[1], call'.buf[2])
                   = Outside(disk, call'.buf[1], call'.buf[2])]_vars

\* C29: bitmap_reset(start, num, ibit), ibit in the range of the bitmap, sets
\* logical bit ibit to 0 and leaves every other bit of the bitmap as it was.
C29_ResetFrame ==
  [][(call'.op = "bitmap_reset" /\ call'.arg < call'.buf[2] * SECTOR_SIZE * 8) =>
       Ones(disk', call'.buf[1], call'.buf[2])
         = Ones(disk, call'.buf[1], call'.buf[2]) \ {call'.arg}]_vars

\* C25: a File_Write that needs a new sector (the sector of the file at the
\* position is not allocated) while the allocator finds no free sector fails with
\* E_NO_SPACE or returns the short count 0; it stores no -1 in the inode's data[]
\* and leaves the size of the file as it was.
C25_NoSpace ==
  [][(/\ call'.op = "File_Write" /\ call'.arg > 0
      /\ open_files[call'.fd].inode > 0
      /\ NoSpace(disk)
      /\ InodeOf(disk, open_files[call'.fd].inode)
           .data[open_files[call'.fd].pos \div SECTOR_SIZE] = 0) =>
       /\ ~halted'
       /\ (ret' = -1 /\ osErrno' = "E_NO_SPACE") \/ ret' = 0
       /\ \A k \in DataIndex : InodeOf(disk', open_files[call'.fd].inode).data[k] # -1
       /\ InodeOf(disk', open_files[call'.fd].inode).size
            = InodeOf(disk, open_files[call'.fd].inode).size]_vars

\* C33: in every state, the size cached in an open-file entry that is in use is the
\* size field of the inode the entry refers to, also when a File_Write through
\* another descriptor of the same file has grown the file.
C33_CachedSize ==
  ~halted =>
    \A fd \in Fds :
      open_files[fd].inode > 0 =>
        open_files[fd].size = InodeOf(disk, open_files[fd].inode).size

\* C32: in every state, every sector at or beyond DATABLOCK_START_SECTOR whose
\* sector-bitmap bit is 1 is named by exactly one data[] slot of a live inode, so
\* a File_Write over a range that has its sectors leaves no allocated sector
\* without an owner.
C32_NoLeak ==
  ~halted =>
    \A own \in {[x \in LiveInodes(disk) \X DataIndex |-> InodeOf(disk, x[1]).data[x[2]]]} :
      \A s \in Ones(disk, SECTOR_BITMAP_START_SECTOR, SECTOR_BITMAP_SECTORS) :
        s >= DATABLOCK_START_SECTOR => Cardinality({x \in DOMAIN own : own[x] = s}) = 1

\* C31: a create or unlink of another name in the same directory leaves a path
\* that was created and not unlinked, and that resolves, resolving to the same
\* inode: it is not lost from the directory and its entry is not overwritten.
C31_StaysResolvable ==
  [][(/\ call'.op \in {"File_Create", "Dir_Create", "File_Unlink", "Dir_Unlink"}
      /\ ~halted'
      /\ Components(call'.path) # <<>>) =>
       \A p \in made \ {call'.path} :
         (Dirname(p) = Dirname(call'.path) /\ Lookup(disk, p) >= 0) =>
           Lookup(disk', p) = Lookup(disk, p)]_vars
====
